---- MODULE Spec2Model ----
(***************************************************************************)
(* Model of physion/physion_tools.py: PhysionPointCloudGenerator.          *)
(*                                                                         *)
(* Numbers.  Integers only.  A float that the code computes is kept as an  *)
(* exact fixed-point or fractional value:                                  *)
(*   - a depth before un-normalizing is an integer count of 2^-16;         *)
(*   - a decoded depth is an integer count of 2^-24 tenths (the clipping   *)
(*     planes are given in tenths, so 0.1 is 1 and 100 is 1000);           *)
(*   - a colour is a fraction [num, den];                                  *)
(*   - a world point is [z, U, V, den], the point (z*U + V)/den with z the *)
(*     decoded depth: reprojection is affine in the depth.                 *)
(* The rounding of float32/float64 is not modelled.                        *)
(***************************************************************************)
EXTENDS Integers, Sequences, FiniteSets, TLC

VARIABLES
    hdf5,          \* the archive on disk: what h5py.File(path) would read
    hf,            \* the archive handle self.hf: "unopened" or "open" (nothing closes it)
    pc,            \* "new", "constructed", "init_failed"
    self,          \* the generator's fields set by __init__
    ran,           \* whether run() has been called
    reran,         \* whether run() has been called more than once
    ind_all,       \* run(): ind_i_all/ind_j_all, one index array per visible object
    ind_b_all,     \* background_pc(): ind_b_all, the background index array
    ndc,           \* normalized device coordinates of the rows of the last run()
    complete_pcd,  \* the last run(): whether it returned, and the rows it returned
    error,         \* the exception the last call raised, or "none"
    call,          \* the arguments of a direct call of get_depth_values or background_pc
    ret            \* what the direct call returned or raised

vars == <<hdf5, hf, pc, self, ran, reran, ind_all, ind_b_all, ndc, complete_pcd, error,
          call, ret>>

----------------------------------------------------------------------------
(* Bounds of the model.                                                    *)

\* a frame has at most MaxPixels pixels (height * width)
MaxPixels == 4

\* at most MaxObjects tracked objects in static/object_ids
MaxObjects == 2

\* a direct call of get_depth_values passes at most MaxDepthPixels pixels
MaxDepthPixels == 2

\* a direct call of background_pc passes a size of at most MaxGridSize
MaxGridSize == 2

\* a direct call of background_pc passes at most MaxArrays index arrays
MaxArrays == 2

----------------------------------------------------------------------------
(* numpy arithmetic on uint8 and float operands.                           *)

Q16 == 65536

U8(v) == [dt |-> "uint8", v |-> v]

F64(q) == [dt |-> "float64", v |-> q]

\* the value of an operand as a count of 2^-16
AsQ16(a) == IF a.dt = "uint8" THEN a.v * Q16 ELSE a.v

\* a / k with k a float: true division, the result is a float
np_true_divide(a, k) == F64(AsQ16(a) \div k)

\* a + b: uint8 + uint8 stays uint8 and wraps, anything with a float is a float
np_add(a, b) ==
    IF a.dt = "uint8" /\ b.dt = "uint8"
    THEN U8((a.v + b.v) % 256)
    ELSE F64(AsQ16(a) + AsQ16(b))

----------------------------------------------------------------------------
(* get_depth_values                                                        *)

\* np.reshape(image, (height, width, 3)) of a flat sequence of pixels
Grid(height, width) == (0 .. height - 1) \X (0 .. width - 1)

ReshapeOk(image, height, width) == Len(image) = height * width

Reshape(image, height, width) ==
    [p \in Grid(height, width) |-> image[p[1] * width + p[2] + 1]]

\* DepthFull with the division of channel 1 left out: the bytes are added as uint8
DepthFull_bytesum(px) ==
    np_add(np_add(U8(px[1]), U8(px[2])), np_true_divide(U8(px[3]), 256 * 256))

\* depth_pass == "_depth": channel0 + channel1 / 256.0 + channel2 / 256.0 ** 2
DepthFull(px) ==
    np_add(np_add(U8(px[1]), np_true_divide(U8(px[2]), 256)),
           np_true_divide(U8(px[3]), 256 * 256))

\* depth_pass == "_depth_simple": channel0 / 256.0
DepthSimple(px) == np_true_divide(U8(px[1]), 256)

\* depth_values * ((far_plane - near_plane) / 256.0), as a count of 2^-24 tenths
UnNormalize(dv, near_plane, far_plane) == AsQ16(dv) * (far_plane - near_plane)

\* get_depth_values with the final else left out: any other flag decodes as
\* "_depth_simple"
get_depth_values_lenient(image, depth_pass, width, height, near_plane, far_plane) ==
    IF ~ReshapeOk(image, height, width)
    THEN [raised |-> "ValueError", value |-> <<>>]
    ELSE [raised |-> "none",
          value |-> [p \in Grid(height, width) |->
                        UnNormalize(IF depth_pass = "_depth"
                                    THEN DepthFull(Reshape(image, height, width)[p])
                                    ELSE DepthSimple(Reshape(image, height, width)[p]),
                                    near_plane, far_plane)]]

get_depth_values(image, depth_pass, width, height, near_plane, far_plane) ==
    IF ~ReshapeOk(image, height, width)
    THEN [raised |-> "ValueError", value |-> <<>>]
    ELSE IF depth_pass = "_depth"
    THEN [raised |-> "none",
          value |-> [p \in Grid(height, width) |->
                        UnNormalize(DepthFull(Reshape(image, height, width)[p]),
                                    near_plane, far_plane)]]
    ELSE IF depth_pass = "_depth_simple"
    THEN [raised |-> "none",
          value |-> [p \in Grid(height, width) |->
                        UnNormalize(DepthSimple(Reshape(image, height, width)[p]),
                                    near_plane, far_plane)]]
    ELSE [raised |-> "Exception", value |-> <<>>]

----------------------------------------------------------------------------
(* Linear algebra on 4x4 integer matrices, kept exact: the inverse of M is *)
(* Adjugate(M) / Det4(M).                                                  *)

Det3(m) ==
    m[1][1] * (m[2][2] * m[3][3] - m[2][3] * m[3][2])
    - m[1][2] * (m[2][1] * m[3][3] - m[2][3] * m[3][1])
    + m[1][3] * (m[2][1] * m[3][2] - m[2][2] * m[3][1])

Minor(M, r, c) ==
    LET KeepR(i) == i # r
        KeepC(j) == j # c
        rs == SelectSeq(<<1, 2, 3, 4>>, KeepR)
        cs == SelectSeq(<<1, 2, 3, 4>>, KeepC)
    IN  [i \in 1 .. 3 |-> [j \in 1 .. 3 |-> M[rs[i]][cs[j]]]]

Cofactor(M, r, c) ==
    (IF (r + c) % 2 = 0 THEN 1 ELSE -1) * Det3(Minor(M, r, c))

Det4(M) ==
    M[1][1] * Cofactor(M, 1, 1) + M[1][2] * Cofactor(M, 1, 2)
    + M[1][3] * Cofactor(M, 1, 3) + M[1][4] * Cofactor(M, 1, 4)

Adjugate(M) == [i \in 1 .. 4 |-> [j \in 1 .. 4 |-> Cofactor(M, j, i)]]

MatVec(A, v) ==
    [i \in 1 .. 4 |->
        A[i][1] * v[1] + A[i][2] * v[2] + A[i][3] * v[3] + A[i][4] * v[4]]

\* A calibration matrix is [e, zero_pivot]: its entries, and whether the LU
\* factorization of its floating-point entries meets an exactly zero pivot.
Matrix(e, zp) == [e |-> e, zero_pivot |-> zp]

CamIdentity == <<<<1, 0, 0, 0>>, <<0, 1, 0, 0>>, <<0, 0, 1, 0>>, <<0, 0, 0, 1>>>>

CamTurned == <<<<0, -1, 0, 1>>, <<1, 0, 0, 0>>, <<0, 0, 1, 2>>, <<0, 0, 0, 1>>>>

\* singular, with a zero row: the factorization meets an exactly zero pivot
CamSingular == <<<<1, 0, 0, 0>>, <<0, 1, 0, 0>>, <<0, 0, 0, 0>>, <<0, 0, 0, 1>>>>

\* singular, of rank three: in floating point the last pivot of the upper block
\* is a rounding residue, so both outcomes are kept for it
CamRankThree == <<<<1, 2, 3, 0>>, <<4, 5, 6, 0>>, <<7, 8, 9, 0>>, <<0, 0, 0, 1>>>>

ProjPerspective == <<<<2, 0, 0, 0>>, <<0, 2, 0, 0>>, <<0, 0, -1, -1>>, <<0, 0, -1, 0>>>>

\* singular, with two equal rows: an exactly zero pivot
ProjSingular == <<<<2, 0, 0, 0>>, <<0, 2, 0, 0>>, <<0, 0, -1, -1>>, <<0, 0, -1, -1>>>>

CalibrationMatrices ==
    {Matrix(CamIdentity, FALSE), Matrix(CamTurned, FALSE), Matrix(ProjPerspective, FALSE),
     Matrix(CamSingular, TRUE), Matrix(ProjSingular, TRUE),
     Matrix(CamRankThree, TRUE), Matrix(CamRankThree, FALSE)}

\* np.linalg.inv(m).  A singular matrix with a zero pivot raises LinAlgError; one
\* whose pivot is a rounding residue is inverted without an error and the result
\* is meaningless (here: a zero denominator).
Invert(m) ==
    IF Det4(m.e) = 0 /\ m.zero_pivot
    THEN [raised |-> "LinAlgError", adj |-> <<>>, det |-> 0]
    ELSE [raised |-> "none", adj |-> Adjugate(m.e), det |-> Det4(m.e)]

\* the inverses of the calibration matrices, computed once
InverseTable == [m \in CalibrationMatrices |-> Invert(m)]

np_linalg_inv(m) == InverseTable[m]

----------------------------------------------------------------------------
(* convert_2D_to_3D                                                        *)

\* A sample is [row, col, z].  After the axis swap the column is divided by
\* target_resolution[0] and the row by target_resolution[1]; the row is flipped;
\* both are mapped to [-1, 1].
Normalize(s, target_resolution) ==
    [x |-> [num |-> 2 * s.col - target_resolution[1], den |-> target_resolution[1]],
     y |-> [num |-> target_resolution[2] - 2 * s.row, den |-> target_resolution[2]]]

\* The clip-space vector (x*z, y*z, z, (z - P[2,3]) / P[2,2] * P[3,2]) is
\* z * dir + off over the denominator x.den * y.den * P[2,2]; the inverse
\* projection and the inverse camera matrix are applied to both parts and the
\* homogeneous coordinate is dropped.
Reproject(s, n, invP, invC, P) ==
    LET p22 == P[3][3]
        p23 == P[3][4]
        p32 == P[4][3]
        dir == <<n.x.num * n.y.den * p22, n.y.num * n.x.den * p22,
                 n.x.den * n.y.den * p22, p32 * n.x.den * n.y.den>>
        off == <<0, 0, 0, (0 - p23) * p32 * n.x.den * n.y.den>>
        U == MatVec(invC.adj, MatVec(invP.adj, dir))
        V == MatVec(invC.adj, MatVec(invP.adj, off))
    IN  [z |-> s.z,
         U |-> <<U[1], U[2], U[3]>>,
         V |-> <<V[1], V[2], V[3]>>,
         den |-> n.x.den * n.y.den * p22 * invP.det * invC.det]

convert_2D_to_3D(obj_2D, camera_matrix, projection_matrix, target_resolution) ==
    LET n == [k \in 1 .. Len(obj_2D) |-> Normalize(obj_2D[k], target_resolution)]
        invP == np_linalg_inv(projection_matrix)
        invC == np_linalg_inv(camera_matrix)
    IN  IF invP.raised # "none"
        THEN [raised |-> invP.raised, value |-> <<>>, ndc |-> n]
        ELSE IF invC.raised # "none"
        THEN [raised |-> invC.raised, value |-> <<>>, ndc |-> n]
        ELSE [raised |-> "none",
              value |-> [k \in 1 .. Len(obj_2D) |->
                            Reproject(obj_2D[k], n[k], invP, invC, projection_matrix.e)],
              ndc |-> n]

----------------------------------------------------------------------------
(* run and background_pc                                                   *)

LexLess(p, q) == p[1] < q[1] \/ (p[1] = q[1] /\ p[2] < q[2])

\* the (row, col) pairs of a set in row-major order: the order of np.nonzero
\* and of np.setdiff1d on the structured view
RECURSIVE SortedSeq(_)
SortedSeq(S) ==
    IF S = {}
    THEN <<>>
    ELSE LET m == CHOOSE p \in S : \A q \in S \ {p} : LexLess(p, q)
         IN  <<m>> \o SortedSeq(S \ {m})

RECURSIVE Concatenate(_)
Concatenate(arrays) ==
    IF arrays = <<>> THEN <<>> ELSE Head(arrays) \o Concatenate(Tail(arrays))

SeqToSet(q) == {q[k] : k \in 1 .. Len(q)}

\* np.logical_and.reduce over the three channel comparisons
selected_mask(seg_array, color) ==
    {p \in DOMAIN seg_array :
        /\ seg_array[p][1] = color[1]
        /\ seg_array[p][2] = color[2]
        /\ seg_array[p][3] = color[3]}

\* SkipObject with the test left out: no object is skipped
SkipObject_never(mask) == FALSE

\* if np.sum(selected_mask) == 0: continue
SkipObject(mask) == mask = {}

\* the samples (row, col, depth) of an index array
Samples(ind, true_z_f) ==
    [k \in 1 .. Len(ind) |-> [row |-> ind[k][1], col |-> ind[k][2], z |-> true_z_f[ind[k]]]]

\* the target_resolution run() passes for an object's pixels
ObjectResolution(s) == <<s.img_height, s.img_width>>

\* the for loop of run() from object index idx on; acc holds the accumulators
RECURSIVE ObjectLoop(_, _, _)
ObjectLoop(s, idx, acc) ==
    IF idx > Len(s.object_ids) \/ acc.raised # "none"
    THEN acc
    ELSE LET mask == selected_mask(s.seg_array, s.segmentation_colors[idx])
             ind == SortedSeq(mask)
             conv == convert_2D_to_3D(Samples(ind, s.dep_array), s.camera_matrix,
                                      s.projection_matrix, ObjectResolution(s))
         IN  IF SkipObject(mask)
             THEN ObjectLoop(s, idx + 1, acc)
             ELSE IF conv.raised # "none"
             THEN [acc EXCEPT !.raised = conv.raised,
                              !.ind_all = Append(acc.ind_all, ind)]
             ELSE ObjectLoop(s, idx + 1,
                     [raised |-> "none",
                      ind_all |-> Append(acc.ind_all, ind),
                      world |-> Append(acc.world, conv.value),
                      rgb |-> Append(acc.rgb, [k \in 1 .. Len(ind) |-> s.img_array[ind[k]]]),
                      ndc |-> acc.ndc \o conv.ndc])

\* the target_resolution background_pc passes for the background pixels
BackgroundResolution == <<256, 256>>

\* the pixel grid background_pc builds from its size argument
BackgroundGrid(size) == Grid(size, size)

background_pc(size, ind_o, true_z_f, rgb_f, camera_matrix, projection_matrix) ==
    LET ind_o_all == SeqToSet(Concatenate(ind_o))
        ind_b == SortedSeq(BackgroundGrid(size) \ ind_o_all)
        conv == convert_2D_to_3D(Samples(ind_b, true_z_f), camera_matrix,
                                 projection_matrix, BackgroundResolution)
    IN  IF ind_o = <<>>
        THEN [raised |-> "ValueError", ind_b_all |-> <<>>, world |-> <<>>,
              rgb |-> <<>>, ndc |-> <<>>]
        ELSE IF \E k \in 1 .. Len(ind_b) : ind_b[k] \notin DOMAIN true_z_f
        THEN [raised |-> "IndexError", ind_b_all |-> ind_b, world |-> <<>>,
              rgb |-> <<>>, ndc |-> <<>>]
        ELSE IF conv.raised # "none"
        THEN [raised |-> conv.raised, ind_b_all |-> ind_b, world |-> <<>>,
              rgb |-> <<>>, ndc |-> <<>>]
        ELSE [raised |-> "none", ind_b_all |-> ind_b, world |-> conv.value,
              rgb |-> [k \in 1 .. Len(ind_b) |-> rgb_f[ind_b[k]]],
              ndc |-> conv.ndc]

\* NormalizeColors dividing by 256
NormalizeColors_256(rgb) == [c \in 1 .. 3 |-> [num |-> rgb[c], den |-> 256]]

\* complete_pcd_colors / 255.
NormalizeColors(rgb) == [c \in 1 .. 3 |-> [num |-> rgb[c], den |-> 255]]

\* rows [x, y, z, r, g, b] of np.concatenate([world, colors], axis=1)
Rows(world, rgb) ==
    [k \in 1 .. Len(world) |-> [xyz |-> world[k], rgb |-> NormalizeColors(rgb[k])]]

\* NoAccumulators with the lists of the previous run() kept
NoAccumulators_kept ==
    LET rows == complete_pcd.rows
    IN  [raised |-> "none",
         ind_all |-> ind_all,
         world |-> IF rows = <<>> THEN <<>> ELSE <<[k \in 1 .. Len(rows) |-> rows[k].xyz]>>,
         rgb |-> IF rows = <<>>
                 THEN <<>>
                 ELSE <<[k \in 1 .. Len(rows) |-> [c \in 1 .. 3 |-> rows[k].rgb[c].num]]>>,
         ndc |-> ndc]

\* the empty lists run() starts with
NoAccumulators ==
    [raised |-> "none", ind_all |-> <<>>, world |-> <<>>, rgb |-> <<>>, ndc |-> <<>>]

\* run() on a generator with fields s: what it raises or returns, and its locals
run(s) ==
    LET loop == ObjectLoop(s, 1, NoAccumulators)
        bg == background_pc(s.img_height, loop.ind_all, s.dep_array, s.img_array,
                            s.camera_matrix, s.projection_matrix)
        failed(e, b) == [raised |-> e, rows |-> <<>>, ind_all |-> loop.ind_all,
                         ind_b_all |-> b, ndc |-> <<>>]
    IN  IF loop.raised # "none"
        THEN failed(loop.raised, <<>>)
        ELSE IF loop.world = <<>>
        THEN failed("ValueError", <<>>)
        ELSE IF bg.raised # "none"
        THEN failed(bg.raised, bg.ind_b_all)
        ELSE [raised |-> "none",
              rows |-> Rows(Concatenate(loop.world) \o bg.world,
                            Concatenate(loop.rgb) \o bg.rgb),
              ind_all |-> loop.ind_all,
              ind_b_all |-> bg.ind_b_all,
              ndc |-> loop.ndc \o bg.ndc]

----------------------------------------------------------------------------
(* The archives and frames the model reads.                                *)

\* near_plane=0.1 and far_plane=100 of the call in __init__, in tenths
NearPlane == 1

FarPlane == 1000

\* segmentation colours: the last two differ in the third channel alone
Palette == {<<0, 0, 0>>, <<255, 0, 0>>, <<255, 0, 7>>}

Dims(maxp) == {d \in (1 .. maxp) \X (1 .. maxp) : d[1] * d[2] <= maxp}

\* object_segmentation_colors: one colour per tracked object, no colour twice
ColourLists ==
    {q \in UNION {[1 .. n -> Palette] : n \in 0 .. MaxObjects} :
        \A a, b \in 1 .. Len(q) : a # b => q[a] # q[b]}

Byte(n) == LET bytes == <<255, 0, 128, 1>> IN bytes[(n % 4) + 1]

\* the RGB image of a frame: every pixel differs from its neighbours
ImgAt(p) == <<Byte(p[1] + 1), Byte(p[2]), Byte(p[1] + p[2] + 2)>>

\* the three depth bytes of pixel p
DepthAt(p) == <<1 + ((p[1] + 2 * p[2]) % 3), 128 * (p[2] % 2), 64 * (p[1] % 2)>>

GoodCalibs ==
    {[camera |-> Matrix(CamTurned, FALSE), projection |-> Matrix(ProjPerspective, FALSE)]}

OtherCalibs ==
    {[camera |-> Matrix(CamIdentity, FALSE), projection |-> Matrix(ProjPerspective, FALSE)],
     [camera |-> Matrix(CamIdentity, FALSE), projection |-> Matrix(ProjSingular, TRUE)],
     [camera |-> Matrix(CamSingular, TRUE), projection |-> Matrix(ProjPerspective, FALSE)],
     [camera |-> Matrix(CamRankThree, TRUE), projection |-> Matrix(ProjPerspective, FALSE)],
     [camera |-> Matrix(CamRankThree, FALSE), projection |-> Matrix(ProjPerspective, FALSE)]}

Archive(d, seg, colours, calib, defect) ==
    [defect |-> defect,
     height |-> d[1],
     width |-> d[2],
     object_ids |-> [k \in 1 .. Len(colours) |-> k],
     object_segmentation_colors |-> colours,
     camera_matrix |-> calib.camera,
     projection_matrix |-> calib.projection,
     img |-> [p \in Grid(d[1], d[2]) |-> ImgAt(p)],
     id |-> seg,
     depth |-> LET flat == SortedSeq(Grid(d[1], d[2]))
               IN  [k \in 1 .. (IF defect = "bad_depth" THEN Len(flat) - 1 ELSE Len(flat)) |->
                        DepthAt(flat[k])]]

Defects == {"unreadable", "no_static", "no_frame", "no_images", "bad_depth"}

\* every frame of at most MaxPixels pixels, with a well-calibrated camera
FullFrame(a) ==
    \E d \in Dims(MaxPixels) :
        \E seg \in [Grid(d[1], d[2]) -> Palette], c \in ColourLists, k \in GoodCalibs :
            a = Archive(d, seg, c, k, "none")

\* the frames of at most two pixels, with the other calibrations
SmallFrame(a) ==
    \E d \in Dims(2) :
        \E seg \in [Grid(d[1], d[2]) -> Palette], c \in ColourLists, k \in OtherCalibs :
            a = Archive(d, seg, c, k, "none")

\* unreadable and malformed archives
BrokenArchive(a) ==
    \E k \in GoodCalibs, x \in Defects :
        a = Archive(<<1, 2>>, [p \in Grid(1, 2) |-> <<255, 0, 0>>], <<<<255, 0, 0>>>>, k, x)

\* the arguments of direct calls of get_depth_values
PixelSamples == {<<0, 0, 0>>, <<255, 255, 255>>, <<128, 128, 1>>, <<1, 2, 3>>}

DepthPasses == {"_depth", "_depth_simple", "_depth_exr"}

DepthCalls ==
    {[image |-> im, depth_pass |-> m, height |-> d[1], width |-> d[2],
      near_plane |-> pl[1], far_plane |-> pl[2]] :
        im \in UNION {[1 .. n -> PixelSamples] : n \in 1 .. MaxDepthPixels},
        m \in DepthPasses, d \in Dims(MaxDepthPixels), pl \in {<<1, 100>>, <<0, 10>>}}

NoCall ==
    [image |-> <<>>, depth_pass |-> "", height |-> 0, width |-> 0,
     near_plane |-> 0, far_plane |-> 0]

Pending == [raised |-> "pending", value |-> <<>>]

----------------------------------------------------------------------------
(* The generator's life: __init__, then run().                             *)

NoFields == [constructed |-> FALSE]

NoResult == [returned |-> FALSE, rows |-> <<>>]

Init ==
    /\ FullFrame(hdf5) \/ SmallFrame(hdf5) \/ BrokenArchive(hdf5)
    /\ hf = "unopened"
    /\ pc = "new"
    /\ self = NoFields
    /\ ran = FALSE
    /\ reran = FALSE
    /\ ind_all = <<>>
    /\ ind_b_all = <<>>
    /\ ndc = <<>>
    /\ complete_pcd = NoResult
    /\ error = "none"
    /\ call = NoCall
    /\ ret = Pending

\* __init__ raised e; handle is the state it leaves self.hf in
InitFails(e, handle) ==
    /\ pc' = "init_failed"
    /\ hf' = handle
    /\ error' = e
    /\ UNCHANGED self

\* the exception __init__ raises while loading, or "none"
LoadError(a) ==
    IF a.defect \in {"no_static", "no_frame", "no_images"}
    THEN "KeyError"
    ELSE get_depth_values(a.depth, "_depth", a.width, a.height, NearPlane, FarPlane).raised

\* the fields __init__ sets from a well-formed archive
Fields(a) ==
    [constructed |-> TRUE,
     object_ids |-> a.object_ids,
     segmentation_colors |-> a.object_segmentation_colors,
     projection_matrix |-> a.projection_matrix,
     camera_matrix |-> a.camera_matrix,
     img_array |-> a.img,
     img_height |-> a.height,
     img_width |-> a.width,
     seg_array |-> a.id,
     dep_array |-> get_depth_values(a.depth, "_depth", a.width, a.height,
                                    NearPlane, FarPlane).value]

\* PhysionPointCloudGenerator(hdf5_file_path, frame_number)
Construct ==
    /\ pc = "new"
    /\ IF hdf5.defect = "unreadable"
       THEN InitFails("OSError", "unopened")
       ELSE IF LoadError(hdf5) # "none"
       THEN InitFails(LoadError(hdf5), "open")
       ELSE /\ pc' = "constructed"
            /\ hf' = "open"
            /\ error' = "none"
            /\ self' = Fields(hdf5)
    /\ UNCHANGED <<hdf5, ran, reran, ind_all, ind_b_all, ndc, complete_pcd, call, ret>>

\* generator.run(), any number of times
Run ==
    /\ pc = "constructed"
    /\ \E out \in {run(self)} :
           /\ error' = out.raised
           /\ complete_pcd' = [returned |-> out.raised = "none", rows |-> out.rows]
           /\ ind_all' = out.ind_all
           /\ ind_b_all' = out.ind_b_all
           /\ ndc' = out.ndc
    /\ ran' = TRUE
    /\ reran' = ran
    /\ UNCHANGED <<hdf5, hf, pc, self, call, ret>>

Next == Construct \/ Run

Spec == Init /\ [][Next]_vars

----------------------------------------------------------------------------
(* Direct calls of get_depth_values.                                       *)

InitDepth ==
    /\ hdf5 = Archive(<<1, 1>>, [p \in Grid(1, 1) |-> <<0, 0, 0>>], <<>>,
                      CHOOSE k \in GoodCalibs : TRUE, "none")
    /\ hf = "unopened"
    /\ pc = "new"
    /\ self = NoFields
    /\ ran = FALSE
    /\ reran = FALSE
    /\ ind_all = <<>>
    /\ ind_b_all = <<>>
    /\ ndc = <<>>
    /\ complete_pcd = NoResult
    /\ error = "none"
    /\ call \in DepthCalls
    /\ ret = Pending

GetDepthValues ==
    /\ ret = Pending
    /\ ret' = get_depth_values(call.image, call.depth_pass, call.width, call.height,
                               call.near_plane, call.far_plane)
    /\ UNCHANGED <<hdf5, hf, pc, self, ran, reran, ind_all, ind_b_all, ndc,
                   complete_pcd, error, call>>

NextDepth == GetDepthValues

SpecDepth == InitDepth /\ [][NextDepth]_vars

----------------------------------------------------------------------------
(* Direct calls of background_pc.                                          *)

\* the index arrays of a call: one or two pixels of the frame's top-left 2 x 2
\* corner, in any order, a pixel possibly twice and in several arrays
IndexArrays(height, width) ==
    LET corner == Grid(height, width) \cap Grid(2, 2)
    IN  UNION {[1 .. n -> corner] : n \in 1 .. 2}

\* the arguments c of a call: size is the frame's height, and the frame is
\* square or one column wider
BackgroundCalls(c) ==
    \E size \in 1 .. MaxGridSize, k \in GoodCalibs :
        \E width \in {size, size + 1} :
            \E frame \in {Fields(Archive(<<size, width>>,
                                          [p \in Grid(size, width) |-> <<0, 0, 0>>],
                                          <<>>, k, "none"))} :
                \E q \in UNION {[1 .. n -> IndexArrays(size, width)] : n \in 1 .. MaxArrays} :
                    c = [size |-> size, ind_all |-> q, frame |-> frame]

InitBackground ==
    /\ hdf5 = Archive(<<1, 1>>, [p \in Grid(1, 1) |-> <<0, 0, 0>>], <<>>,
                      CHOOSE k \in GoodCalibs : TRUE, "none")
    /\ hf = "unopened"
    /\ pc = "new"
    /\ self = NoFields
    /\ ran = FALSE
    /\ reran = FALSE
    /\ ind_all = <<>>
    /\ ind_b_all = <<>>
    /\ ndc = <<>>
    /\ complete_pcd = NoResult
    /\ error = "none"
    /\ BackgroundCalls(call)
    /\ ret = Pending

\* background_pc on the arguments c
BackgroundCall(c) ==
    background_pc(c.size, c.ind_all, c.frame.dep_array, c.frame.img_array,
                  c.frame.camera_matrix, c.frame.projection_matrix)

BackgroundPc ==
    /\ ret = Pending
    /\ ret' = BackgroundCall(call)
    /\ UNCHANGED <<hdf5, hf, pc, self, ran, reran, ind_all, ind_b_all, ndc,
                   complete_pcd, error, call>>

NextBackground == BackgroundPc

SpecBackground == InitBackground /\ [][NextBackground]_vars

----------------------------------------------------------------------------
(* Properties.                                                             *)

Height == self.img_height

Width == self.img_width

\* the source pixel of every row of the last run(), in row order
RowSources == Concatenate(ind_all) \o ind_b_all

\* the pixels of the frame that carry the segmentation colour of object idx
PixelsOf(idx) ==
    {p \in Grid(Height, Width) : self.seg_array[p] = self.segmentation_colors[idx]}

VisibleObjects == {idx \in 1 .. Len(self.object_ids) : PixelsOf(idx) # {}}

Invertible == Det4(self.camera_matrix.e) # 0 /\ Det4(self.projection_matrix.e) # 0

NoDuplicates(q) == \A a, b \in 1 .. Len(q) : a # b => q[a] # q[b]

\* C1: after a run() that computed the background, the per-object index sets and
\* the background index set cover every (row, col) of the height x width grid
\* exactly once.
C1_MaskPartition ==
    complete_pcd.returned =>
        /\ SeqToSet(RowSources) = Grid(Height, Width)
        /\ NoDuplicates(RowSources)

\* the sources the rows should have: each visible object's pixels in object-id
\* list order, then the remaining pixels of the frame
RECURSIVE ObjectSourcesFrom(_)
ObjectSourcesFrom(idx) ==
    IF idx > Len(self.object_ids)
    THEN <<>>
    ELSE SortedSeq(PixelsOf(idx)) \o ObjectSourcesFrom(idx + 1)

ExpectedSources ==
    ObjectSourcesFrom(1)
    \o SortedSeq(Grid(Height, Width) \ UNION {PixelsOf(idx) : idx \in VisibleObjects})

\* C2: on a frame with a visible object (and invertible calibration matrices)
\* run() returns height * width rows, the
\* visible objects' rows first in object-id list order and the background rows
\* last, every colour being the source pixel's RGB value over 255.
C2_RowsCoverFrame ==
    (ran /\ VisibleObjects # {} /\ Invertible) =>
        /\ complete_pcd.returned
        /\ Len(complete_pcd.rows) = Height * Width
        /\ RowSources = ExpectedSources
        /\ \A k \in 1 .. Len(complete_pcd.rows) : \A c \in 1 .. 3 :
               complete_pcd.rows[k].rgb[c].num * 255
                   = self.img_array[RowSources[k]][c] * complete_pcd.rows[k].rgb[c].den

\* C3: when no object's mask selects a pixel, run() fails with the dedicated
\* NoObjectPointsError, not with the crash of the concatenation of an empty list.
C3_NoObjectPointsError ==
    (ran /\ VisibleObjects = {}) =>
        /\ error = "NoObjectPointsError"
        /\ ~complete_pcd.returned

\* the generator's fields with the objects of empty mask taken out of the lists
WithoutHidden ==
    LET IsVisible(idx) == idx \in VisibleObjects
        kept == SelectSeq(self.object_ids, IsVisible)
    IN  [self EXCEPT !.object_ids = [k \in 1 .. Len(kept) |-> k],
                     !.segmentation_colors =
                         [k \in 1 .. Len(kept) |-> self.segmentation_colors[kept[k]]]]

\* C4: an object whose colour matches no pixel contributes no index array and no
\* rows, and run() raises or returns what it would with that object taken out of
\* the object list.
C4_EmptyMaskSkipped ==
    ran =>
        /\ \A k \in 1 .. Len(ind_all) : ind_all[k] # <<>>
        /\ Len(ind_all) <= Cardinality(VisibleObjects)
        /\ complete_pcd.returned => Len(ind_all) = Cardinality(VisibleObjects)
        /\ LET other == run(WithoutHidden)
           IN  /\ error = other.raised
               /\ complete_pcd.rows = other.rows
               /\ ind_all = other.ind_all
               /\ ind_b_all = other.ind_b_all

\* C4 witness: a run() that returned rows for a list with a hidden object ahead
\* of a visible one.
C4_Witness ==
    /\ ran
    /\ complete_pcd.returned
    /\ Len(self.object_ids) = 2
    /\ VisibleObjects = {2}

\* C5: once __init__ has failed, or run() has been called, the archive handle is
\* not left open.
C5_HandleClosed == (pc = "init_failed" \/ ran) => hf # "open"

\* C6: every reprojected pixel, of an object or of the background, has its
\* column divided by the image width and its row by the image height.
C6_SameResolution ==
    complete_pcd.returned =>
        \A k \in 1 .. Len(ndc) :
            /\ ndc[k].x.num * Width = (2 * RowSources[k][2] - Width) * ndc[k].x.den
            /\ ndc[k].y.num * Height = (Height - 2 * RowSources[k][1]) * ndc[k].y.den

\* C8: with a singular camera or projection matrix the reprojection of the first
\* visible object fails with GeometryError and run() returns no point cloud.
C8_GeometryError ==
    (ran /\ ~Invertible /\ VisibleObjects # {}) =>
        /\ error = "GeometryError"
        /\ ~complete_pcd.returned

\* C10: every colour channel of every returned row is the source pixel's 8-bit
\* value v over 255: it lies in [0, 1] and is exactly 1 for v = 255.
C10_ColoursNormalized ==
    complete_pcd.returned =>
        \A k \in 1 .. Len(complete_pcd.rows) : \A c \in 1 .. 3 :
            LET col == complete_pcd.rows[k].rgb[c]
                v == self.img_array[RowSources[k]][c]
            IN  /\ col.den > 0
                /\ 0 <= col.num /\ col.num <= col.den
                /\ col.num * 255 = v * col.den
                /\ v = 255 => col.num = col.den

\* C10 witness: a returned cloud with a channel of value 255 in an object row and
\* in a background row.
C10_Witness ==
    /\ complete_pcd.returned
    /\ \E k \in 1 .. Len(Concatenate(ind_all)) : \E c \in 1 .. 3 :
           self.img_array[RowSources[k]][c] = 255
    /\ \E k \in Len(Concatenate(ind_all)) + 1 .. Len(complete_pcd.rows) : \E c \in 1 .. 3 :
           self.img_array[RowSources[k]][c] = 255

----------------------------------------------------------------------------
(* Properties of get_depth_values.                                         *)

Called == ret # Pending

WellSized == Len(call.image) = call.height * call.width

PixelAt(p) == call.image[p[1] * call.width + p[2] + 1]

Span == call.far_plane - call.near_plane

C9_DepthFormula ==
    (Called /\ ret.raised = "none" /\ call.depth_pass = "_depth") =>
        \A p \in Grid(call.height, call.width) :
            LET c == PixelAt(p)
            IN  ret.value[p] = (c[1] * 65536 + c[2] * 256 + c[3]) * Span

\* C9 witness: a decoded pixel whose channels sum past 255.
C9_Witness ==
    /\ Called
    /\ ret.raised = "none"
    /\ call.depth_pass = "_depth"
    /\ \E p \in Grid(call.height, call.width) : PixelAt(p)[1] + PixelAt(p)[2] > 255

----------------------------------------------------------------------------
(* Direct calls of background_pc.                                          *)

\* the pixels named by some index array of a list
UnionOf(arrays) == UNION {{arrays[k][n] : n \in 1 .. Len(arrays[k])} : k \in 1 .. Len(arrays)}

Reversed(q) == [k \in 1 .. Len(q) |-> q[Len(q) + 1 - k]]

\* the background index array of the call made, were its index arrays arrays
BackgroundOf(arrays) == BackgroundCall([call EXCEPT !.ind_all = arrays]).ind_b_all

\* What background_pc does compute: once each, the pixels of its size x size
\* grid that no index array names, whatever the order of the index arrays and
\* however often a pixel is named.
BackgroundOfSizeGrid ==
    Called =>
        /\ SeqToSet(ret.ind_b_all) = Grid(call.size, call.size) \ UnionOf(call.ind_all)
        /\ NoDuplicates(ret.ind_b_all)
        /\ BackgroundOf(Reversed(call.ind_all)) = ret.ind_b_all
        /\ BackgroundOf(call.ind_all \o call.ind_all) = ret.ind_b_all

\* C11: the background index array that background_pc computes holds, once
\* each, exactly the pixels of the frame that no index array names, and it is
\* the same when the index arrays are passed in the opposite order or every
\* array is passed a second time.
C11_BackgroundSet ==
    Called =>
        /\ SeqToSet(ret.ind_b_all) =
               Grid(call.frame.img_height, call.frame.img_width) \ UnionOf(call.ind_all)
        /\ NoDuplicates(ret.ind_b_all)
        /\ BackgroundOf(Reversed(call.ind_all)) = ret.ind_b_all
        /\ BackgroundOf(call.ind_all \o call.ind_all) = ret.ind_b_all

----------------------------------------------------------------------------
(* Repeated calls of run().                                                *)

====
